---- MODULE Spec2Model ----
(***************************************************************************)
(* Model of the chunk planning, chunk extraction, transcription and merge  *)
(* path of whisper-go (src/main.go).                                       *)
(*                                                                         *)
(* Times are integers on a fixed grid (one unit is one tick of the media   *)
(* clock); the float comparisons  x > t*0.5  and  x < t*1.5  of the source *)
(* are written  2*x > t  and  2*x < 3*t , which is the same on the grid.   *)
(* Sizes are integers in one unit; int(sizeMB/maxSizeMB) is \div.          *)
(* A file path is the index the source formats into the file name.         *)
(***************************************************************************)
EXTENDS Integers, Sequences, FiniteSets, TLC

VARIABLES
    pc,                 \* position of the running function / of main
    output,             \* lines of the silencedetect diagnostic stream
    lineIdx,            \* detectSilence: number of lines scanned so far
    currentStart,       \* detectSilence: var currentStart float64
    silencePoints,      \* []SilencePoint
    sizeMB,             \* getFileSizeMB(audioPath)
    maxSizeMB,          \* config.MaxFileSizeMB
    audioDuration,      \* the real length of the audio file
    totalDuration,      \* duration as read by ffprobe
    idealChunkDuration, \* planner: idealChunkDuration
    currentTime,        \* planner: currentTime (the target of the iteration)
    splitTimes,         \* planner: splitTimes
    duration,           \* createAudioChunks: duration, _ := getAudioDuration(audioPath)
    startTime,          \* createAudioChunks: startTime
    chunks,             \* []AudioChunk
    files,              \* temporary chunk files on disk: [Path, From, To]
    submitted,          \* chunk paths sent to the transcription service, in order
    results,            \* []*TranscriptionResult
    result,             \* the transcript (merged or direct), or NoResult
    saved,              \* TRUE once the output files were written
    failedChunk         \* the chunk number in the error of transcribeMultipleChunks, 0 if none

vars == <<pc, output, lineIdx, currentStart, silencePoints, sizeMB, maxSizeMB,
          audioDuration, totalDuration, idealChunkDuration, currentTime,
          splitTimes, duration, startTime, chunks, files, submitted, results, result,
          saved, failedChunk>>

(***************************************************************************)
(* Bounds of the model.                                                    *)
(***************************************************************************)
MaxDuration == 8      \* longest audio, in ticks
MaxPoints   == 2      \* most silence intervals handed to the planner
MaxLines    == 3      \* most lines of a diagnostic stream

MaxStamp    == 2      \* largest timestamp of a line of the parser's own specification
MaxSizeMB   == 5      \* largest input file
MaxLimitMB  == 3      \* largest configured max_file_size_mb
MaxChunks   == 3      \* most chunks handed to the merger
MaxOffset   == 3      \* largest chunk start offset handed to the merger

(***************************************************************************)
(* SplitPlanner: calculateSplitTimes                                       *)
(***************************************************************************)

\* diff := sp.End - currentTime; if diff < 0 { diff = -diff }
Diff(end, target) == IF end - target < 0 THEN -(end - target) ELSE end - target

\* variant of Qualifies: the lower bound of the window is included
QualifiesClosedLow(sp, target, minDiff) ==
    /\ 2 * sp.End >= target
    /\ 2 * sp.End < 3 * target
    /\ Diff(sp.End, target) < minDiff

\* sp.End > currentTime*0.5 && sp.End < currentTime*1.5 && diff < minDiff
Qualifies(sp, target, minDiff) ==
    /\ 2 * sp.End > target
    /\ 2 * sp.End < 3 * target
    /\ Diff(sp.End, target) < minDiff

\* variant of InitialBest: bestTime starts at the ideal duration
InitialBestIdeal(target, ideal) == ideal

\* bestTime := currentTime
InitialBest(target, ideal) == target

\* the inner loop over silencePoints, from index k on
RECURSIVE ScanPoints(_, _, _, _, _)
ScanPoints(sps, k, target, bestTime, minDiff) ==
    IF k > Len(sps) THEN bestTime
    ELSE IF Qualifies(sps[k], target, minDiff)
         THEN ScanPoints(sps, k + 1, target, sps[k].End, Diff(sps[k].End, target))
         ELSE ScanPoints(sps, k + 1, target, bestTime, minDiff)

\* one iteration's choice: bestTime after the inner loop (minDiff starts at ideal)
FindBestTime(target, ideal, sps) ==
    ScanPoints(sps, 1, target, InitialBest(target, ideal), ideal)

\* for currentTime < totalDuration
LoopContinues(target, total) == target < total

\* variant of Breaks: a choice equal to the total duration is recorded
BreaksStrict(bestTime, total) == bestTime > total

\* if bestTime >= totalDuration { break }
Breaks(bestTime, total) == bestTime >= total

\* variant of NextTarget: the target moves to the split just recorded
NextTargetNoAdvance(bestTime, ideal) == bestTime

\* currentTime = bestTime + idealChunkDuration
NextTarget(bestTime, ideal) == bestTime + ideal

RECURSIVE SplitLoop(_, _, _, _, _)
SplitLoop(total, ideal, sps, target, acc) ==
    IF ~LoopContinues(target, total) THEN acc
    ELSE LET bestTime == FindBestTime(target, ideal, sps) IN
         IF Breaks(bestTime, total) THEN acc
         ELSE SplitLoop(total, ideal, sps, NextTarget(bestTime, ideal),
                        Append(acc, bestTime))

calculateSplitTimes(total, ideal, sps) == SplitLoop(total, ideal, sps, ideal, <<>>)

(***************************************************************************)
(* SilenceEventParser: detectSilence, parseSilenceTime                     *)
(*                                                                         *)
(* A line is [marker, field]: marker says which of "silence_start:" and    *)
(* "silence_end:" the line contains, field is the text after the marker as *)
(* its "|"-separated parts; a part is [ok, t]: ok when Sscanf("%f") reads  *)
(* the number t from it.                                                   *)
(***************************************************************************)

\* parts := strings.Split(s, "|"); Sscanf(TrimSpace(parts[0]), "%f", &t)
parseSilenceTime(field) == field[1]

\* SilencePoint{Start: currentStart, End: end}
NewPoint(start, end) == [Start |-> start, End |-> end]

\* variant of ParseLine: an end line emits only once currentStart was set
ParseLineGuarded(line, st) ==
    LET r == parseSilenceTime(line.field) IN
    IF line.marker = "silence_start"
    THEN IF r.ok THEN [st EXCEPT !.currentStart = r.t] ELSE st
    ELSE IF line.marker = "silence_end"
         THEN IF r.ok /\ st.currentStart # 0
              THEN [st EXCEPT !.points = Append(@, NewPoint(st.currentStart, r.t))]
              ELSE st
         ELSE st

\* the body of the loop over lines; st = [currentStart, points]
ParseLine(line, st) ==
    LET r == parseSilenceTime(line.field) IN
    IF line.marker = "silence_start"
    THEN IF r.ok THEN [st EXCEPT !.currentStart = r.t] ELSE st
    ELSE IF line.marker = "silence_end"
         THEN IF r.ok
              THEN [st EXCEPT !.points = Append(@, NewPoint(st.currentStart, r.t))]
              ELSE st
         ELSE st

RECURSIVE ParseFrom(_, _, _)
ParseFrom(lines, k, st) ==
    IF k > Len(lines) THEN st ELSE ParseFrom(lines, k + 1, ParseLine(lines[k], st))

\* var points []SilencePoint; var currentStart float64; for _, line := range lines
detectSilence(lines) == ParseFrom(lines, 1, [currentStart |-> 0, points |-> <<>>]).points

(***************************************************************************)
(* ResultMerger: mergeResults                                              *)
(*                                                                         *)
(* A text is a sequence of characters ("\n" is the line break).            *)
(***************************************************************************)
PlaceholderSeconds == 10

\* var result *TranscriptionResult (nil)
NoResult == [Text |-> <<>>, Language |-> "<nil>", Segments |-> <<>>, Duration |-> 0]

\* variant of ShiftSegment: the end is left chunk-local
ShiftSegmentStartOnly(seg, offset, id) ==
    [ID |-> id, Start |-> seg.Start + offset, End |-> seg.End, Text |-> seg.Text]

\* variant of ShiftSegment: the start is left chunk-local
ShiftSegmentEndOnly(seg, offset, id) ==
    [ID |-> id, Start |-> seg.Start, End |-> seg.End + offset, Text |-> seg.Text]

\* variant of ShiftSegment: the chunk-local id is kept
ShiftSegmentKeepID(seg, offset, id) ==
    [ID |-> seg.ID, Start |-> seg.Start + offset, End |-> seg.End + offset,
     Text |-> seg.Text]

\* Segment{ID: segmentID, Start: seg.Start + offset, End: seg.End + offset, Text: seg.Text}
ShiftSegment(seg, offset, id) ==
    [ID |-> id, Start |-> seg.Start + offset, End |-> seg.End + offset,
     Text |-> seg.Text]

\* variant of NeedsPlaceholder: the first chunk gets a placeholder too
NeedsPlaceholderAnyChunk(res, i) == Len(res.Segments) = 0

\* if len(result.Segments) == 0 && i > 0   (i is the 0-based chunk index)
NeedsPlaceholder(res, i) == Len(res.Segments) = 0 /\ i > 0

\* Segment{ID: segmentID, Start: offset, End: offset + 10, Text: result.Text}
PlaceholderSegment(res, offset, id) ==
    [ID |-> id, Start |-> offset, End |-> offset + PlaceholderSeconds,
     Text |-> res.Text]

\* for _, seg := range result.Segments { append; segmentID++ }
RECURSIVE AppendSegments(_, _, _, _)
AppendSegments(segs, j, offset, m) ==
    IF j > Len(segs) THEN m
    ELSE AppendSegments(segs, j + 1, offset,
            [m EXCEPT !.Segments = Append(@, ShiftSegment(segs[j], offset, m.segmentID)),
                      !.segmentID = @ + 1])

\* the body of the loop over results; i is the 0-based index of the chunk
MergeChunk(res, chunk, i, m) ==
    LET m1 == IF m.Language = "" /\ res.Language # ""
              THEN [m EXCEPT !.Language = res.Language] ELSE m
        m2 == IF res.Text # <<>>
              THEN [m1 EXCEPT !.Text = @ \o res.Text \o
                        (IF res.Text[Len(res.Text)] = "\n" THEN <<>> ELSE <<"\n">>)]
              ELSE m1
        m3 == AppendSegments(res.Segments, 1, chunk.StartOffset, m2)
    IN  IF NeedsPlaceholder(res, i)
        THEN [m3 EXCEPT !.Segments =
                    Append(@, PlaceholderSegment(res, chunk.StartOffset, m3.segmentID)),
                        !.segmentID = @ + 1]
        ELSE m3

RECURSIVE MergeFrom(_, _, _, _)
MergeFrom(rs, cs, k, m) ==
    IF k > Len(rs) THEN m ELSE MergeFrom(rs, cs, k + 1, MergeChunk(rs[k], cs[k], k - 1, m))

mergeResults(rs, cs) ==
    LET m == MergeFrom(rs, cs, 1,
                 [Language |-> "", Text |-> <<>>, Segments |-> <<>>, segmentID |-> 1])
    IN  [Text |-> m.Text, Language |-> m.Language, Segments |-> m.Segments,
         Duration |-> IF Len(m.Segments) > 0 THEN m.Segments[Len(m.Segments)].End ELSE 0]

(***************************************************************************)
(* Input domains                                                           *)
(***************************************************************************)
SeqsUpTo(S, n) == UNION {[1..k -> S] : k \in 0..n}

Part(stamps) == {[ok |-> TRUE, t |-> t] : t \in stamps} \cup {[ok |-> FALSE, t |-> 0]}
Extra == [ok |-> FALSE, t |-> 0]     \* "silence_duration: 33.26" after the "|"

\* "silence_start: <x>", "silence_end: <x>", "silence_end: <x> | silence_duration: <y>"
\* and lines with neither marker
Lines(stamps) ==
    {[marker |-> "silence_start", field |-> <<p>>] : p \in Part(stamps)}
    \cup {[marker |-> "silence_end", field |-> <<p>>] : p \in Part(stamps)}
    \cup {[marker |-> "silence_end", field |-> <<p, Extra>>] : p \in Part(stamps)}
    \cup {[marker |-> "other", field |-> <<Extra>>]}

Points == {[Start |-> e - 1, End |-> e] : e \in 1..(MaxDuration + 1)}

\* the segments of one chunk's transcript, before transcribeAudio numbers them
SegA == [Start |-> 0, End |-> 1, Text |-> <<"a">>]
SegB == [Start |-> 2, End |-> 3, Text |-> <<"b", "\n">>]
SegLists == {<<>>, <<SegA>>, <<SegB>>, <<SegA, SegB>>, <<SegB, SegA>>}

RECURSIVE JoinTexts(_, _)
JoinTexts(segs, k) == IF k > Len(segs) THEN <<>> ELSE segs[k].Text \o JoinTexts(segs, k + 1)

\* transcribeAudio: result.Segments[i] = Segment{ID: i + 1, Start, End, Text}
transcribeAudioResult(text, language, segs) ==
    [Text |-> text, Language |-> language, Duration |-> 0,
     Segments |-> [j \in 1..Len(segs) |->
                     [ID |-> j, Start |-> segs[j].Start, End |-> segs[j].End,
                      Text |-> segs[j].Text]]]

ChunkResults ==
    {transcribeAudioResult(IF segs = <<>> THEN t ELSE JoinTexts(segs, 1), l, segs) :
        segs \in SegLists, t \in {<<>>, <<"t">>}, l \in {"", "en"}}

JobResults ==
    {transcribeAudioResult(<<"t">>, "en", <<>>),
     transcribeAudioResult(JoinTexts(<<SegA, SegB>>, 1), "", <<SegA, SegB>>)}

RECURSIVE SortedSeq(_)
SortedSeq(S) ==
    IF S = {} THEN <<>>
    ELSE LET m == CHOOSE x \in S : \A y \in S : x <= y IN <<m>> \o SortedSeq(S \ {m})

\* chunk lists as createAudioChunks builds them: offsets 0 < s1 < s2 < ...
ChunkLists ==
    {<<>>} \cup
    {[k \in 1..(Cardinality(S) + 1) |->
        [Path |-> k - 1,
         StartOffset |-> IF k = 1 THEN 0 ELSE SortedSeq(S)[k - 1]]] :
        S \in {T \in SUBSET (1..MaxOffset) : Cardinality(T) < MaxChunks}}

JobOutputs == SeqsUpTo(Lines(1..MaxDuration), 1)

(***************************************************************************)
(* detectSilence, line by line                                             *)
(***************************************************************************)
InitParse ==
    /\ pc = "scan"
    /\ output \in SeqsUpTo(Lines(1..MaxStamp), MaxLines)
    /\ lineIdx = 0 /\ currentStart = 0 /\ silencePoints = <<>>
    /\ sizeMB = 0 /\ maxSizeMB = 0 /\ audioDuration = 0 /\ totalDuration = 0
    /\ idealChunkDuration = 0 /\ currentTime = 0 /\ splitTimes = <<>>
    /\ duration = 0 /\ startTime = 0 /\ chunks = <<>> /\ files = {}
    /\ submitted = <<>> /\ results = <<>> /\ result = NoResult /\ saved = FALSE /\ failedChunk = 0

ScanLine ==
    /\ pc = "scan"
    /\ lineIdx < Len(output)
    /\ LET st == ParseLine(output[lineIdx + 1],
                           [currentStart |-> currentStart, points |-> silencePoints])
       IN  /\ currentStart' = st.currentStart
           /\ silencePoints' = st.points
    /\ lineIdx' = lineIdx + 1
    /\ UNCHANGED <<pc, output, sizeMB, maxSizeMB, audioDuration, totalDuration,
                   idealChunkDuration, currentTime, splitTimes, duration, startTime,
                   chunks, files, submitted, results, result, saved, failedChunk>>

ScanReturn ==
    /\ pc = "scan"
    /\ lineIdx = Len(output)
    /\ pc' = "scanned"
    /\ UNCHANGED <<output, lineIdx, currentStart, silencePoints, sizeMB, maxSizeMB,
                   audioDuration, totalDuration, idealChunkDuration, currentTime,
                   splitTimes, duration, startTime, chunks, files, submitted, results,
                   result, saved, failedChunk>>

NextParse == ScanLine \/ ScanReturn

SpecParse == InitParse /\ [][NextParse]_vars

(***************************************************************************)
(* calculateSplitTimes, iteration by iteration                             *)
(***************************************************************************)
InitPlan ==
    /\ pc = "calc"
    /\ totalDuration \in 1..MaxDuration
    /\ idealChunkDuration \in 1..MaxDuration
    /\ silencePoints \in SeqsUpTo(Points, MaxPoints)
    /\ currentTime = idealChunkDuration
    /\ splitTimes = <<>>
    /\ output = <<>> /\ lineIdx = 0 /\ currentStart = 0
    /\ sizeMB = 0 /\ maxSizeMB = 0 /\ audioDuration = 0
    /\ duration = 0 /\ startTime = 0 /\ chunks = <<>> /\ files = {}
    /\ submitted = <<>> /\ results = <<>> /\ result = NoResult /\ saved = FALSE /\ failedChunk = 0

PlanUnchanged ==
    UNCHANGED <<output, lineIdx, currentStart, silencePoints, sizeMB, maxSizeMB,
                audioDuration, totalDuration, idealChunkDuration, duration, startTime,
                chunks, files, submitted, results, result, saved, failedChunk>>

\* an iteration that records bestTime
PlanRecord ==
    /\ pc = "calc"
    /\ LoopContinues(currentTime, totalDuration)
    /\ LET bestTime == FindBestTime(currentTime, idealChunkDuration, silencePoints) IN
        /\ ~Breaks(bestTime, totalDuration)
        /\ splitTimes' = Append(splitTimes, bestTime)
        /\ currentTime' = NextTarget(bestTime, idealChunkDuration)
    /\ pc' = pc
    /\ PlanUnchanged

\* an iteration that breaks
PlanBreak ==
    /\ pc = "calc"
    /\ LoopContinues(currentTime, totalDuration)
    /\ Breaks(FindBestTime(currentTime, idealChunkDuration, silencePoints), totalDuration)
    /\ pc' = "calcret"
    /\ UNCHANGED <<currentTime, splitTimes>>
    /\ PlanUnchanged

\* the loop condition fails
PlanReturn ==
    /\ pc = "calc"
    /\ ~LoopContinues(currentTime, totalDuration)
    /\ pc' = "calcret"
    /\ UNCHANGED <<currentTime, splitTimes>>
    /\ PlanUnchanged

NextPlan == PlanRecord \/ PlanBreak \/ PlanReturn

SpecPlan == InitPlan /\ [][NextPlan]_vars

\* the loop is straight-line code in one goroutine: an iteration that can run
\* does run
SpecPlanFair == SpecPlan /\ WF_vars(NextPlan)

(***************************************************************************)
(* mergeResults on a list of chunk results                                 *)
(***************************************************************************)
InitMerge ==
    /\ pc = "merge"
    /\ chunks \in ChunkLists
    /\ results \in [1..Len(chunks) -> ChunkResults]
    /\ result = NoResult
    /\ output = <<>> /\ lineIdx = 0 /\ currentStart = 0 /\ silencePoints = <<>>
    /\ sizeMB = 0 /\ maxSizeMB = 0 /\ audioDuration = 0 /\ totalDuration = 0
    /\ idealChunkDuration = 0 /\ currentTime = 0 /\ splitTimes = <<>>
    /\ duration = 0 /\ startTime = 0 /\ files = {}
    /\ submitted = <<>> /\ saved = FALSE /\ failedChunk = 0

MergeCall ==
    /\ pc = "merge"
    /\ result' = mergeResults(results, chunks)
    /\ pc' = "merged"
    /\ UNCHANGED <<output, lineIdx, currentStart, silencePoints, sizeMB, maxSizeMB,
                   audioDuration, totalDuration, idealChunkDuration, currentTime,
                   splitTimes, duration, startTime, chunks, files, submitted, results,
                   saved, failedChunk>>

NextMerge == MergeCall

SpecMerge == InitMerge /\ [][NextMerge]_vars

(***************************************************************************)
(* main: one transcription job                                             *)
(***************************************************************************)

\* numChunks := int(sizeMB/maxSizeMB) + 1
numChunks(size, limit) == size \div limit + 1

\* idealChunkDuration := duration / float64(numChunks)
\* (Init draws durations that numChunks divides, so \div is the exact quotient)
idealDuration(total, n) == total \div n

Init ==
    /\ pc = "main"
    /\ sizeMB \in 1..MaxSizeMB
    /\ maxSizeMB \in 2..MaxLimitMB
    /\ audioDuration \in {d \in 1..MaxDuration :
                            sizeMB > maxSizeMB => d % numChunks(sizeMB, maxSizeMB) = 0}
    /\ output \in JobOutputs
    /\ lineIdx = 0 /\ currentStart = 0 /\ silencePoints = <<>>
    /\ totalDuration = 0 /\ idealChunkDuration = 0 /\ currentTime = 0
    /\ splitTimes = <<>> /\ duration = 0 /\ startTime = 0 /\ chunks = <<>>
    /\ files = {} /\ submitted = <<>> /\ results = <<>> /\ result = NoResult
    /\ saved = FALSE /\ failedChunk = 0

\* if fileSizeMB > config.MaxFileSizeMB { ... } else { ... }
CheckSize ==
    /\ pc = "main"
    /\ pc' = IF sizeMB > maxSizeMB THEN "split" ELSE "direct"
    /\ UNCHANGED <<output, lineIdx, currentStart, silencePoints, sizeMB, maxSizeMB,
                   audioDuration, totalDuration, idealChunkDuration, currentTime,
                   splitTimes, duration, startTime, chunks, files, submitted, results,
                   result, saved, failedChunk>>

\* splitAudioBySilence up to the call of createAudioChunks: ffprobe and ffmpeg
\* silencedetect succeed
SplitPlan ==
    /\ pc = "split"
    /\ totalDuration' = audioDuration
    /\ idealChunkDuration' = idealDuration(audioDuration, numChunks(sizeMB, maxSizeMB))
    /\ silencePoints' = detectSilence(output)
    /\ splitTimes' = calculateSplitTimes(totalDuration', idealChunkDuration',
                                         silencePoints')
    /\ pc' = "chunks"
    /\ UNCHANGED <<output, lineIdx, currentStart, sizeMB, maxSizeMB, audioDuration,
                   currentTime, duration, startTime, chunks, files, submitted, results,
                   result, saved, failedChunk>>

\* getAudioDuration or detectSilence returns an error: log.Fatalf in main
SplitFatal ==
    /\ pc = "split"
    /\ pc' = "fatal"
    /\ UNCHANGED <<output, lineIdx, currentStart, silencePoints, sizeMB, maxSizeMB,
                   audioDuration, totalDuration, idealChunkDuration, currentTime,
                   splitTimes, duration, startTime, chunks, files, submitted, results,
                   result, saved, failedChunk>>

\* createAudioChunks: duration, _ := getAudioDuration(audioPath); startTime := 0.0
\* (the error is dropped: a failed ffprobe leaves duration = 0)
CreateChunksBegin ==
    /\ pc = "chunks"
    /\ \E probeOk \in BOOLEAN : duration' = IF probeOk THEN audioDuration ELSE 0
    /\ startTime' = 0
    /\ chunks' = <<>>
    /\ pc' = "extract"
    /\ UNCHANGED <<output, lineIdx, currentStart, silencePoints, sizeMB, maxSizeMB,
                   audioDuration, totalDuration, idealChunkDuration, currentTime,
                   splitTimes, files, submitted, results, result, saved, failedChunk>>

Min(a, b) == IF a < b THEN a ELSE b

\* ffmpeg -i audioPath -ss from [-to to] ... chunkPath
ChunkFile(path, from, to) == [Path |-> path, From |-> from, To |-> Min(to, audioDuration)]

\* for _, c := range chunks { os.Remove(c.Path) }
RemoveChunks(fs, cs) == {f \in fs : \A k \in 1..Len(cs) : cs[k].Path # f.Path}

JobUnchanged ==
    UNCHANGED <<output, lineIdx, currentStart, silencePoints, sizeMB, maxSizeMB,
                audioDuration, totalDuration, idealChunkDuration, currentTime,
                splitTimes, duration>>

\* the loop over splitTimes, ffmpeg succeeds
ExtractChunk ==
    /\ pc = "extract"
    /\ Len(chunks) < Len(splitTimes)
    /\ LET i == Len(chunks)
           endTime == splitTimes[i + 1]
       IN  /\ files' = files \cup {ChunkFile(i, startTime, endTime)}
           /\ chunks' = Append(chunks, [Path |-> i, StartOffset |-> startTime])
           /\ startTime' = endTime
    /\ pc' = pc
    /\ UNCHANGED <<submitted, results, result, saved, failedChunk>>
    /\ JobUnchanged

\* the loop over splitTimes, ffmpeg fails (it may leave a truncated file behind):
\* the chunks made so far are removed, the error reaches log.Fatalf in main
ExtractChunkFail ==
    /\ pc = "extract"
    /\ Len(chunks) < Len(splitTimes)
    /\ \E partial \in BOOLEAN :
         files' = RemoveChunks(files, chunks) \cup
                  (IF partial THEN {ChunkFile(Len(chunks), startTime, startTime)} ELSE {})
    /\ chunks' = <<>>
    /\ pc' = "fatal"
    /\ UNCHANGED <<startTime, submitted, results, result, saved, failedChunk>>
    /\ JobUnchanged

\* after the loop: if startTime < duration, the last chunk (no -to); then return
ExtractLast ==
    /\ pc = "extract"
    /\ Len(chunks) = Len(splitTimes)
    /\ IF startTime < duration
       THEN /\ files' = files \cup {ChunkFile(Len(splitTimes), startTime, audioDuration)}
            /\ chunks' = Append(chunks, [Path |-> Len(splitTimes),
                                         StartOffset |-> startTime])
       ELSE UNCHANGED <<files, chunks>>
    /\ pc' = "transcribe"
    /\ UNCHANGED <<startTime, submitted, results, result, saved, failedChunk>>
    /\ JobUnchanged

ExtractLastFail ==
    /\ pc = "extract"
    /\ Len(chunks) = Len(splitTimes)
    /\ startTime < duration
    /\ \E partial \in BOOLEAN :
         files' = RemoveChunks(files, chunks) \cup
                  (IF partial THEN {ChunkFile(Len(splitTimes), startTime, startTime)}
                   ELSE {})
    /\ chunks' = <<>>
    /\ pc' = "fatal"
    /\ UNCHANGED <<startTime, submitted, results, result, saved, failedChunk>>
    /\ JobUnchanged

\* transcribeMultipleChunks: one pass of the loop, transcribeAudio succeeds
TranscribeChunk ==
    /\ pc = "transcribe"
    /\ Len(results) < Len(chunks)
    /\ submitted' = Append(submitted, chunks[Len(results) + 1].Path)
    /\ \E r \in JobResults : results' = Append(results, r)
    /\ pc' = pc
    /\ UNCHANGED <<startTime, chunks, files, result, saved, failedChunk>>
    /\ JobUnchanged

\* variant of TranscribeFail: the failure is recorded and the loop goes on to the
\* next chunk
TranscribeFailSkips ==
    /\ pc = "transcribe"
    /\ Len(results) < Len(chunks)
    /\ submitted' = Append(submitted, chunks[Len(results) + 1].Path)
    /\ results' = Append(results, NoResult)
    /\ failedChunk' = Len(results) + 1
    /\ pc' = pc
    /\ UNCHANGED <<startTime, chunks, files, result, saved>>
    /\ JobUnchanged

\* transcribeAudio fails: transcribeMultipleChunks returns the error, which names
\* chunk i+1, and main calls log.Fatalf, which exits the process without running
\* deferred calls
TranscribeFail ==
    /\ pc = "transcribe"
    /\ Len(results) < Len(chunks)
    /\ submitted' = Append(submitted, chunks[Len(results) + 1].Path)
    /\ failedChunk' = Len(results) + 1
    /\ pc' = "fatal"
    /\ UNCHANGED <<startTime, chunks, files, results, result, saved>>
    /\ JobUnchanged

\* result = mergeResults(results, chunks)
Merge ==
    /\ pc = "transcribe"
    /\ Len(results) = Len(chunks)
    /\ result' = mergeResults(results, chunks)
    /\ pc' = "save"
    /\ UNCHANGED <<startTime, chunks, files, submitted, results, saved, failedChunk>>
    /\ JobUnchanged

\* result, err = transcribeAudio(client, audioPath, ...)
DirectTranscribe ==
    /\ pc = "direct"
    /\ \E r \in JobResults : result' = r
    /\ pc' = "save"
    /\ UNCHANGED <<startTime, chunks, files, submitted, results, saved, failedChunk>>
    /\ JobUnchanged

DirectFail ==
    /\ pc = "direct"
    /\ pc' = "fatal"
    /\ UNCHANGED <<startTime, chunks, files, submitted, results, result, saved, failedChunk>>
    /\ JobUnchanged

\* the loop over formatList: saveTXT, saveSRT, saveJSON
SaveOutputs ==
    /\ pc = "save"
    /\ saved' = TRUE
    /\ pc' = "return"
    /\ UNCHANGED <<startTime, chunks, files, submitted, results, result, failedChunk>>
    /\ JobUnchanged

\* main returns: the deferred cleanupChunks(chunks) runs
MainReturn ==
    /\ pc = "return"
    /\ files' = RemoveChunks(files, chunks)
    /\ pc' = "exit"
    /\ UNCHANGED <<startTime, chunks, submitted, results, result, saved, failedChunk>>
    /\ JobUnchanged

Next ==
    \/ CheckSize \/ SplitPlan \/ SplitFatal \/ CreateChunksBegin
    \/ ExtractChunk \/ ExtractChunkFail \/ ExtractLast \/ ExtractLastFail
    \/ TranscribeChunk \/ TranscribeFail \/ Merge
    \/ DirectTranscribe \/ DirectFail \/ SaveOutputs \/ MainReturn

Spec == Init /\ [][Next]_vars

(***************************************************************************)
(* Properties                                                              *)
(***************************************************************************)

Terminated == pc \in {"exit", "fatal"}

\* C1 (as claimed): in no terminal state of the job does a temporary chunk file
\* still exist, whichever way the job ended.
C1_NoChunkFileAtExit == Terminated => files = {}

\* the target of the i-th recorded iteration of the planner
Target(i) == IF i = 1 THEN idealChunkDuration
             ELSE splitTimes[i - 1] + idealChunkDuration

IsSilenceEnd(x) == \E k \in 1..Len(silencePoints) : silencePoints[k].End = x

\* C2: every split point the planner records, and so every one it returns, lies
\* strictly between 0 and the total duration, and the sequence is strictly
\* increasing.
C2_SplitsInRangeIncreasing ==
    \A i \in 1..Len(splitTimes) :
        /\ 0 < splitTimes[i]
        /\ splitTimes[i] < totalDuration
        /\ i > 1 => splitTimes[i - 1] < splitTimes[i]

C2_Witness ==
    /\ pc = "calcret"
    /\ Len(splitTimes) >= 3
    /\ \E i \in 1..Len(splitTimes) : splitTimes[i] < Target(i)
    /\ \E i \in 1..Len(splitTimes) : splitTimes[i] > Target(i)

\* the intervals the scan can select for target t: end strictly inside
\* (0.5 t, 1.5 t) and strictly closer to t than the ideal duration
Candidates(t) ==
    {k \in 1..Len(silencePoints) :
        /\ 2 * silencePoints[k].End > t
        /\ 2 * silencePoints[k].End < 3 * t
        /\ Diff(silencePoints[k].End, t) < idealChunkDuration}

\* C3 (as claimed): every recorded split point is the end of a supplied silence
\* interval (the raw target is never recorded).
C3_EverySplitIsSilenceEnd ==
    \A i \in 1..Len(splitTimes) : IsSilenceEnd(splitTimes[i])

\* C3 (amended): every recorded split point is the end of a supplied silence
\* interval or the raw target of its iteration; an iteration with no qualifying
\* interval records the raw target, and the scan does not end for lack of a
\* qualifying interval: it ends only with a target or a choice at or past the
\* total duration.
C3_SplitIsSilenceEndOrTarget ==
    /\ \A i \in 1..Len(splitTimes) :
        /\ IsSilenceEnd(splitTimes[i]) \/ splitTimes[i] = Target(i)
        /\ Candidates(Target(i)) = {} => splitTimes[i] = Target(i)
    /\ (pc = "calcret" /\ Candidates(currentTime) = {}) => currentTime >= totalDuration

C3_Witness ==
    /\ pc = "calcret"
    /\ Len(splitTimes) >= 2
    /\ Candidates(Target(1)) = {}
    /\ ~IsSilenceEnd(splitTimes[1])
    /\ splitTimes[1] = Target(1)
    /\ IsSilenceEnd(splitTimes[2])
    /\ splitTimes[2] # Target(2)

\* the intervals whose end lies in the closed window [0.5 t, 1.5 t]
InClosedWindow(t) ==
    {k \in 1..Len(silencePoints) :
        /\ 2 * silencePoints[k].End >= t
        /\ 2 * silencePoints[k].End <= 3 * t}

\* C4 (as claimed): whenever an interval ends inside [0.5 t, 1.5 t], the split
\* recorded for target t is the end of an interval of that window nearest to t.
C4_NearestInClosedWindow ==
    \A i \in 1..Len(splitTimes) :
        InClosedWindow(Target(i)) # {} =>
            \E k \in InClosedWindow(Target(i)) :
                /\ splitTimes[i] = silencePoints[k].End
                /\ \A j \in InClosedWindow(Target(i)) :
                       Diff(silencePoints[k].End, Target(i))
                           <= Diff(silencePoints[j].End, Target(i))

\* the choice for target t: the end of the first of the nearest candidates, or t
Chosen(t) ==
    IF Candidates(t) = {} THEN t
    ELSE LET k == CHOOSE k \in Candidates(t) :
                    \A j \in Candidates(t) :
                        \/ Diff(silencePoints[k].End, t) < Diff(silencePoints[j].End, t)
                        \/ /\ Diff(silencePoints[k].End, t) = Diff(silencePoints[j].End, t)
                           /\ k <= j
         IN  silencePoints[k].End

\* C4 (amended): in each iteration with target t, if some interval ends strictly
\* inside (0.5 t, 1.5 t) and strictly closer to t than the ideal duration L, the
\* choice is the end of the nearest such interval (the first in list order on a
\* tie); otherwise the choice is t itself.  The choice is recorded unless it is
\* at or past the total duration, which ends the scan.
C4_NearestQualifying ==
    /\ \A i \in 1..Len(splitTimes) : splitTimes[i] = Chosen(Target(i))
    /\ (pc = "calcret" /\ currentTime < totalDuration) =>
            Chosen(currentTime) >= totalDuration

C4_Witness ==
    /\ pc = "calcret"
    /\ \E i \in 1..Len(splitTimes) :
        /\ Target(i) > 2 * idealChunkDuration
        /\ InClosedWindow(Target(i)) # {}
        /\ Candidates(Target(i)) = {}
        /\ splitTimes[i] = Target(i)
    /\ \E i \in 1..Len(splitTimes) :
        /\ Candidates(Target(i)) # {}
        /\ splitTimes[i] # Target(i)

\* the boundaries of the planned chunks: 0, the split points, the total duration
Boundary(k) ==
    IF k = 0 THEN 0
    ELSE IF k <= Len(splitTimes) THEN splitTimes[k] ELSE totalDuration

\* C5 (as claimed): with size proportional to duration, every planned chunk of
\* a file larger than the limit is itself no larger than the limit:
\* (length / totalDuration) * sizeMB <= maxSizeMB.
C5_EveryChunkWithinLimit ==
    pc = "chunks" =>
        \A k \in 1..(Len(splitTimes) + 1) :
            (Boundary(k) - Boundary(k - 1)) * sizeMB <= maxSizeMB * totalDuration

FileOf(path) == CHOOSE f \in files : f.Path = path

\* C6 (as claimed): when createAudioChunks returns without error, the chunks are
\* exactly [0,s1), [s1,s2), ..., [sk,D) for the split points s1..sk.
C6_ChunksPartitionAudio ==
    pc = "transcribe" =>
        /\ Len(chunks) = Len(splitTimes) + 1
        /\ \A k \in 1..Len(chunks) :
            /\ chunks[k].StartOffset = (IF k = 1 THEN 0 ELSE splitTimes[k - 1])
            /\ \E f \in files : f.Path = chunks[k].Path
            /\ FileOf(chunks[k].Path).From = chunks[k].StartOffset
            /\ FileOf(chunks[k].Path).To =
                   (IF k <= Len(splitTimes) THEN splitTimes[k] ELSE audioDuration)

\* line k carries the marker and a first part that reads as a number
IsStartLine(k) == output[k].marker = "silence_start" /\ output[k].field[1].ok
IsEndLine(k) == output[k].marker = "silence_end" /\ output[k].field[1].ok

\* the end lines scanned so far that come after some start line
EndsAfterStart ==
    {k \in 1..lineIdx : IsEndLine(k) /\ \E j \in 1..(k - 1) : IsStartLine(j)}

\* C7 (as claimed): an interval is emitted on a silence-end line only if a
\* silence-start line before it has set a pending start, so there are no more
\* intervals than end lines that follow a start line.
C7_EmitsOnlyWithPendingStart == Len(silencePoints) <= Cardinality(EndsAfterStart)

EndLines == {k \in 1..lineIdx : IsEndLine(k)}

\* the value of currentStart when line k is scanned: the timestamp of the last
\* start line before it, and 0 when there is none
StartBefore(k) ==
    LET S == {j \in 1..(k - 1) : IsStartLine(j)} IN
    IF S = {} THEN 0
    ELSE output[CHOOSE j \in S : \A i \in S : i <= j].field[1].t

NthEndLine(m) == CHOOSE k \in EndLines : Cardinality({j \in EndLines : j <= k}) = m

\* C7 (amended): the parser emits one interval for every silence-end line whose
\* timestamp parses, whether or not a silence-start line came before, in line
\* order: {start: the last parsed silence-start value, or 0 when there is none,
\* end: parsed end}.  A stream whose first marker is a silence-end emits
\* {0, end} for it; a trailing silence-start emits nothing.
C7_EmitsOnEveryEndLine ==
    /\ Len(silencePoints) = Cardinality(EndLines)
    /\ \A m \in 1..Len(silencePoints) :
        /\ silencePoints[m].Start = StartBefore(NthEndLine(m))
        /\ silencePoints[m].End = output[NthEndLine(m)].field[1].t

C7_Witness ==
    /\ pc = "scanned"
    /\ Len(output) = 3
    /\ IsEndLine(1)
    /\ IsStartLine(2)
    /\ IsEndLine(3)
    /\ Len(silencePoints) = 2
    /\ silencePoints[1].Start = 0
    /\ silencePoints[2].Start = output[2].field[1].t

C7_WitnessTrailingStart ==
    /\ pc = "scanned"
    /\ Len(output) = 3
    /\ IsStartLine(1) /\ IsEndLine(2) /\ IsStartLine(3)
    /\ Len(silencePoints) = 1

\* what chunk c (1-based) adds to the merged segment list
Contribution(c) ==
    IF Len(results[c].Segments) > 0 THEN Len(results[c].Segments)
    ELSE IF c > 1 THEN 1 ELSE 0

RECURSIVE Before(_)
Before(c) == IF c <= 1 THEN 0 ELSE Before(c - 1) + Contribution(c - 1)

\* C8: the merged segments carry the ids 1, 2, ..., k in output order.
C8_IdsContiguousFromOne ==
    pc = "merged" =>
        \A k \in 1..Len(result.Segments) : result.Segments[k].ID = k

C8_Witness ==
    /\ pc = "merged"
    /\ Len(results) = 3
    /\ Len(results[1].Segments) = 0
    /\ Len(results[2].Segments) = 2
    /\ Len(results[3].Segments) = 0
    /\ Len(result.Segments) = 3
    /\ result.Segments[3].ID = 3

\* C9: every segment of every chunk appears once in the merged list, in chunk
\* order then segment order, with start and end moved by the chunk's start
\* offset and the text unchanged; every other merged entry is the single entry
\* of a later chunk that has no segments.
C9_SegmentsShiftedInOrder ==
    pc = "merged" =>
        /\ \A k \in 1..Len(result.Segments) :
            \E c \in 1..Len(results) :
                \/ \E j \in 1..Len(results[c].Segments) : k = Before(c) + j
                \/ c > 1 /\ Len(results[c].Segments) = 0 /\ k = Before(c) + 1
        /\ \A c \in 1..Len(results) :
              \A j \in 1..Len(results[c].Segments) :
                  /\ Before(c) + j <= Len(result.Segments)
                  /\ result.Segments[Before(c) + j].Start =
                         results[c].Segments[j].Start + chunks[c].StartOffset
                  /\ result.Segments[Before(c) + j].End =
                         results[c].Segments[j].End + chunks[c].StartOffset
                  /\ result.Segments[Before(c) + j].Text = results[c].Segments[j].Text

C9_Witness ==
    /\ pc = "merged"
    /\ Len(results) = 3
    /\ Len(results[1].Segments) = 2
    /\ Len(results[2].Segments) = 2
    /\ results[2].Segments[1].Start > results[2].Segments[2].Start
    /\ chunks[2].StartOffset > 0
    /\ Len(result.Segments) = 5
    /\ result.Segments[3].Start = results[2].Segments[1].Start + chunks[2].StartOffset
    /\ result.Segments[4].Text = results[2].Segments[2].Text

\* C10: a chunk without segments that is not the first adds exactly one
\* placeholder {start: offset, end: offset + 10, text: the chunk's text} with
\* the next id; a first chunk without segments adds nothing; a chunk with
\* segments adds no placeholder.
C10_PlaceholderForEmptyLaterChunk ==
    pc = "merged" =>
        /\ Len(result.Segments) = Before(Len(results) + 1)
        /\ \A c \in 2..Len(results) :
            Len(results[c].Segments) = 0 =>
                result.Segments[Before(c) + 1] =
                    [ID |-> Before(c) + 1,
                     Start |-> chunks[c].StartOffset,
                     End |-> chunks[c].StartOffset + 10,
                     Text |-> results[c].Text]

C10_Witness ==
    /\ pc = "merged"
    /\ Len(results) = 3
    /\ Len(results[1].Segments) = 0
    /\ Len(results[2].Segments) = 0
    /\ Len(results[3].Segments) = 1
    /\ chunks[2].StartOffset = 1
    /\ results[2].Text = <<"t">>
    /\ Len(result.Segments) = 2
    /\ result.Segments[1].Start = 1
    /\ result.Segments[1].End = 11

\* the hypotheses of C11: chunk offsets and each chunk's segment starts are
\* non-decreasing
OffsetsNonDecreasing ==
    \A c \in 1..(Len(chunks) - 1) : chunks[c].StartOffset <= chunks[c + 1].StartOffset

ChunkStartsNonDecreasing ==
    \A c \in 1..Len(results) :
        \A j \in 1..(Len(results[c].Segments) - 1) :
            results[c].Segments[j].Start <= results[c].Segments[j + 1].Start

MergedStartsNonDecreasing ==
    \A k \in 1..(Len(result.Segments) - 1) :
        result.Segments[k].Start <= result.Segments[k + 1].Start

\* every segment starts inside its chunk: not before the chunk's start and not
\* after the start of the next chunk
StartsWithinChunk ==
    \A c \in 1..Len(results) :
        \A j \in 1..Len(results[c].Segments) :
            /\ results[c].Segments[j].Start >= 0
            /\ c < Len(chunks) =>
                  results[c].Segments[j].Start + chunks[c].StartOffset
                      <= chunks[c + 1].StartOffset

\* C11 as stated: when the chunk offsets are non-decreasing and every chunk's
\* segment starts are non-decreasing, the merged segment starts are
\* non-decreasing over the whole sequence.
C11_StartsNonDecreasing ==
    (pc = "merged" /\ OffsetsNonDecreasing /\ ChunkStartsNonDecreasing)
        => MergedStartsNonDecreasing

\* C11 amended: when the chunk offsets are non-decreasing, every chunk's segment
\* starts are non-decreasing, and every segment starts inside its chunk (at or
\* after 0 locally, and at or before the next chunk's offset once shifted), the
\* merged segment starts are non-decreasing over the whole sequence.
C11_StartsNonDecreasingWithinChunks ==
    (pc = "merged" /\ OffsetsNonDecreasing /\ ChunkStartsNonDecreasing
        /\ StartsWithinChunk)
        => MergedStartsNonDecreasing

C11_Witness ==
    /\ pc = "merged"
    /\ Len(results) = 3
    /\ OffsetsNonDecreasing /\ ChunkStartsNonDecreasing /\ StartsWithinChunk
    /\ Len(results[1].Segments) = 2
    /\ results[1].Segments[2].Start = chunks[2].StartOffset
    /\ Len(results[2].Segments) = 0
    /\ Len(results[3].Segments) = 1
    /\ results[3].Segments[1].Start > 0
    /\ Len(result.Segments) = 4
    /\ MergedStartsNonDecreasing

\* C12: when the extraction of a chunk fails, createAudioChunks returns no
\* chunk list and no chunk file of the job is left on disk (the job is aborted
\* before any chunk was submitted, the only failures that far with files on
\* disk being failed extractions).
C12_NoChunkFileAfterFailedExtraction ==
    (pc = "fatal" /\ submitted = <<>>) => (chunks = <<>> /\ files = {})

\* C13: the chunks are submitted one at a time in the order of the chunk list;
\* at the first failure the job aborts with an error that names the failing
\* chunk, with no later chunk submitted, no merge and no output written; the
\* merge of a chunked job runs only once every chunk has been transcribed.
C13_SequentialAbortOnFirstFailure ==
    /\ Len(submitted) <= Len(chunks)
    /\ \A k \in 1..Len(submitted) : submitted[k] = chunks[k].Path
    /\ Len(results) <= Len(submitted)
    /\ Len(submitted) <= Len(results) + 1
    /\ Len(submitted) > Len(results) => failedChunk # 0
    /\ failedChunk # 0 =>
          /\ pc = "fatal"
          /\ failedChunk = Len(submitted)
          /\ Len(results) = failedChunk - 1
          /\ result = NoResult
          /\ ~saved
    /\ (sizeMB > maxSizeMB /\ result # NoResult) =>
          /\ Len(results) = Len(chunks)
          /\ Len(submitted) = Len(chunks)
          /\ result = mergeResults(results, chunks)
    /\ saved => result # NoResult

C13_Witness ==
    /\ pc = "fatal"
    /\ Len(chunks) = 3
    /\ failedChunk = 2
    /\ submitted = <<chunks[1].Path, chunks[2].Path>>
    /\ Len(results) = 1
    /\ result = NoResult
    /\ ~saved

C13_WitnessAllTranscribed ==
    /\ pc = "save"
    /\ Len(chunks) = 3
    /\ Len(results) = 3
    /\ submitted = <<chunks[1].Path, chunks[2].Path, chunks[3].Path>>
    /\ failedChunk = 0

\* C14: planning N >= 2 chunks of ideal length L = D / N, calculateSplitTimes
\* returns at most N - 1 split points.
C14_AtMostPlannedSplits ==
    (/\ pc = "calcret"
     /\ totalDuration % idealChunkDuration = 0
     /\ totalDuration \div idealChunkDuration >= 2)
        => Len(splitTimes) <= totalDuration \div idealChunkDuration - 1

\* ceil(D / L) for positive integers
CeilDiv(d, l) == (d + l - 1) \div l

====
